---- MODULE Spec2Model ----
(***************************************************************************)
(* A model of src/AbstractFactory/main.py: the Abstract Factory example    *)
(* with two families (Windows, MacOS) of two products (Button, Checkbox),  *)
(* the client routine client_code and the script's __main__ block.         *)
(*                                                                         *)
(* The module is used in one of two ways, chosen by Init:                  *)
(*   mode = "script": run directly, so the __main__ block executes;        *)
(*   mode = "import": imported, so __main__ is skipped and the importer    *)
(*                    calls constructors, methods and client_code itself.  *)
(* Python text is modelled by TLA+ strings, character for character;       *)
(* objects live in `heap` and are identified by their index.               *)
(***************************************************************************)
EXTENDS Naturals, Sequences, FiniteSets

VARIABLES
  mode,    \* "script" | "import": the value of  __name__ == "__main__"
  pc,      \* position of the module-level code
  status,  \* "running" | "exit0" | "exit1": the process's exit status
  heap,    \* heap[i] is the class of object i (the objects have no fields)
  cc,      \* the activation of client_code, if any
  stdout,  \* the characters written to standard output
  trace    \* the calls completed so far, in order of completion

vars == <<mode, pc, status, heap, cc, stdout, trace>>

\* Bound of the model: the calls (constructor calls included) an importer
\* makes itself, the three constructor calls it starts with among them.
MaxCalls == 5

-----------------------------------------------------------------------------
\* Python values: a str, a reference to an object, None, or a raised exception.

V_Str(s) == [kind |-> "str", s |-> s, ref |-> 0, exc |-> ""]
V_Ref(i) == [kind |-> "ref", s |-> "", ref |-> i, exc |-> ""]
V_None == [kind |-> "none", s |-> "", ref |-> 0, exc |-> ""]
V_Exc(type, msg) == [kind |-> "exc", s |-> msg, ref |-> 0, exc |-> type]

IsExc(v) == v.kind = "exc"

-----------------------------------------------------------------------------
\* The classes of the module.

AbstractClasses == {"GUIToolkitFactory", "Button", "Checkbox"}

FactoryClasses == {"WindowsGUIToolkitFactory", "MacOSGUIToolkitFactory"}

ButtonClasses == {"WindowsButton", "MacOSButton"}

CheckboxClasses == {"WindowsCheckbox", "MacOSCheckbox"}

ConcreteClasses == FactoryClasses \cup ButtonClasses \cup CheckboxClasses

\* The methods an instance of cls exposes (attribute lookup through the MRO).
MethodsOf(cls) ==
  IF cls \in FactoryClasses THEN {"create_button", "create_checkbox"}
  ELSE IF cls \in ButtonClasses THEN {"click"}
  ELSE IF cls \in CheckboxClasses THEN {"check", "toggle_with_button"}
  ELSE {}

\* Looking up a method the object does not have raises AttributeError.
AttributeError(cls, name) ==
  V_Exc("AttributeError", "'" \o cls \o "' object has no attribute '" \o name \o "'")

\* cls(): ABCMeta refuses a class that still has abstract methods.
\* (The text after the class name differs between Python versions.)
\* Mutant: MacOSCheckbox leaves an abstract method unimplemented.
Instantiable_incomplete(cls) == cls \in ConcreteClasses \ {"MacOSCheckbox"}

Instantiable(cls) == cls \in ConcreteClasses

AbstractTypeError(cls) ==
  V_Exc("TypeError", "Can't instantiate abstract class " \o cls)

-----------------------------------------------------------------------------
\* The method bodies.

\* WindowsGUIToolkitFactory: the class each creation method instantiates.
WindowsGUIToolkitFactory_create_button(self) == "WindowsButton"

\* Mutant: the Windows factory hands out the other family's checkbox.
WindowsGUIToolkitFactory_create_checkbox_other(self) == "MacOSCheckbox"

WindowsGUIToolkitFactory_create_checkbox(self) == "WindowsCheckbox"

\* MacOSGUIToolkitFactory
MacOSGUIToolkitFactory_create_button(self) == "MacOSButton"

MacOSGUIToolkitFactory_create_checkbox(self) == "MacOSCheckbox"

\* Mutant: the Windows button counts its clicks.
WindowsButton_click_counting(self) ==
  IF \E i \in 1 .. Len(trace) : trace[i].op = "click" /\ trace[i].self = self
  THEN "You have clicked a Windows button again."
  ELSE "You have clicked a Windows button."

WindowsButton_click(self) == "You have clicked a Windows button."

\* Mutant: the MacOS button still carries the text it was copied from.
MacOSButton_click_copied(self) == "You have clicked a Windows button."

MacOSButton_click(self) == "You have clicked a MacOS button."

\* Mutant: the Windows checkbox does not say which variant it is.
WindowsCheckbox_check_unnamed(self) == "Checkbox is checked."

WindowsCheckbox_check(self) == "Windows checkbox is checked."

MacOSCheckbox_check(self) == "MacOS checkbox is checked."

\* button.click(), dispatched on the class of the object passed.
Invoke_click(h, b) ==
  IF "click" \notin MethodsOf(h[b]) THEN AttributeError(h[b], "click")
  ELSE IF h[b] = "WindowsButton" THEN V_Str(WindowsButton_click(b))
  ELSE V_Str(MacOSButton_click(b))

\* checkbox.check()
Invoke_check(h, c) ==
  IF "check" \notin MethodsOf(h[c]) THEN AttributeError(h[c], "check")
  ELSE IF h[c] = "WindowsCheckbox" THEN V_Str(WindowsCheckbox_check(c))
  ELSE V_Str(MacOSCheckbox_check(c))

\* Mutant: the Windows checkbox swallows the failure of button.click().
WindowsCheckbox_toggle_with_button_lenient(h, self, button) ==
  LET result == Invoke_click(h, button)
  IN V_Str("Windows checkbox toggled with (" \o (IF IsExc(result) THEN "" ELSE result.s) \o ")")

\* f"... ({result})": an exception raised by button.click() propagates.
WindowsCheckbox_toggle_with_button(h, self, button) ==
  LET result == Invoke_click(h, button)
  IN IF IsExc(result) THEN result
     ELSE V_Str("Windows checkbox toggled with (" \o result.s \o ")")

\* Mutant: the MacOS checkbox clicks a button of its own family instead of
\* the one it was given.
MacOSCheckbox_toggle_with_button_own(h, self, button) ==
  V_Str("MacOS checkbox toggled with (" \o MacOSButton_click(button) \o ")")

MacOSCheckbox_toggle_with_button(h, self, button) ==
  LET result == Invoke_click(h, button)
  IN IF IsExc(result) THEN result
     ELSE V_Str("MacOS checkbox toggled with (" \o result.s \o ")")

\* checkbox.toggle_with_button(button)
Invoke_toggle_with_button(h, c, b) ==
  IF "toggle_with_button" \notin MethodsOf(h[c])
  THEN AttributeError(h[c], "toggle_with_button")
  ELSE IF h[c] = "WindowsCheckbox" THEN WindowsCheckbox_toggle_with_button(h, c, b)
  ELSE MacOSCheckbox_toggle_with_button(h, c, b)

\* factory.create_button(): the class of the new object, or the exception.
Invoke_create_button(h, f) ==
  IF "create_button" \notin MethodsOf(h[f]) THEN AttributeError(h[f], "create_button")
  ELSE IF h[f] = "WindowsGUIToolkitFactory"
  THEN V_Str(WindowsGUIToolkitFactory_create_button(f))
  ELSE V_Str(MacOSGUIToolkitFactory_create_button(f))

\* factory.create_checkbox()
Invoke_create_checkbox(h, f) ==
  IF "create_checkbox" \notin MethodsOf(h[f]) THEN AttributeError(h[f], "create_checkbox")
  ELSE IF h[f] = "WindowsGUIToolkitFactory"
  THEN V_Str(WindowsGUIToolkitFactory_create_checkbox(f))
  ELSE V_Str(MacOSGUIToolkitFactory_create_checkbox(f))

\* print(s): the text and the line end.
print(out, s) == out \o s \o "\n"

\* A completed call: who made it, the method, function or class called, the
\* receiver and the argument (0 when there is none) and the outcome.
Call(by, op, self, arg, res) ==
  [by |-> by, op |-> op, self |-> self, arg |-> arg, res |-> res]

\* The calls a toggle_with_button completes: the nested click (when the
\* object passed has one), then the toggle itself.
ToggleCalls(by, h, c, b) ==
  LET r == Invoke_toggle_with_button(h, c, b)
  IN IF "toggle_with_button" \in MethodsOf(h[c]) /\ "click" \in MethodsOf(h[b])
     THEN <<Call("toggle_with_button", "click", b, 0, Invoke_click(h, b)),
            Call(by, "toggle_with_button", c, b, r)>>
     ELSE <<Call(by, "toggle_with_button", c, b, r)>>

\* cls(...) evaluated on heap h: the heap afterwards and the value.
Instantiate(h, cls) ==
  IF Instantiable(cls)
  THEN [heap |-> Append(h, cls), res |-> V_Ref(Len(h) + 1)]
  ELSE [heap |-> h, res |-> AbstractTypeError(cls)]

\* A creation method's  return Cls() : r is the class it names, or the
\* AttributeError of a receiver that has no such method.
Created(h, r) == IF IsExc(r) THEN [heap |-> h, res |-> r] ELSE Instantiate(h, r.s)

-----------------------------------------------------------------------------
\* client_code(factory), one step per statement.

NoFrame ==
  [pc |-> "none", factory |-> 0, button |-> 0, checkbox |-> 0, out0 |-> 0, tr0 |-> 0]

\* The activation at entry; out0 and tr0 remember how much output and how
\* many calls preceded it.
Frame(f, tr) ==
  [pc |-> "L114", factory |-> f, button |-> 0, checkbox |-> 0,
   out0 |-> Len(stdout), tr0 |-> Len(tr)]

\* Who called client_code.
Caller == IF mode = "script" THEN "__main__" ELSE "importer"

\* An exception leaves client_code, tr being the calls completed until then.
\* Nothing in the script catches it, so the interpreter exits with status 1;
\* an importer gets it as the call's outcome.
Raise(e, tr) ==
  /\ cc' = NoFrame
  /\ trace' = Append(tr, Call(Caller, "client_code", 0, cc.factory, e))
  /\ IF mode = "script"
     THEN pc' = "crashed" /\ status' = "exit1"
     ELSE pc' = pc /\ status' = status
  /\ mode' = mode

\* Mutant: client_code passes the wrong local.
ClientToggleArg_wrong(frame) == frame.checkbox

\* The argument client_code passes to toggle_with_button.
ClientToggleArg(frame) == frame.button

\* button = factory.create_button()
CC_L114 ==
  /\ cc.pc = "L114"
  /\ LET n == Created(heap, Invoke_create_button(heap, cc.factory))
     IN IF IsExc(n.res)
        THEN Raise(n.res, trace) /\ UNCHANGED <<heap, stdout>>
        ELSE /\ heap' = n.heap
             /\ cc' = [cc EXCEPT !.pc = "L115", !.button = n.res.ref]
             /\ trace' = Append(trace, Call("client_code", "create_button", cc.factory, 0, n.res))
             /\ UNCHANGED <<mode, pc, status, stdout>>

\* checkbox = factory.create_checkbox()
CC_L115 ==
  /\ cc.pc = "L115"
  /\ LET n == Created(heap, Invoke_create_checkbox(heap, cc.factory))
     IN IF IsExc(n.res)
        THEN Raise(n.res, trace) /\ UNCHANGED <<heap, stdout>>
        ELSE /\ heap' = n.heap
             /\ cc' = [cc EXCEPT !.pc = "L117", !.checkbox = n.res.ref]
             /\ trace' = Append(trace, Call("client_code", "create_checkbox", cc.factory, 0, n.res))
             /\ UNCHANGED <<mode, pc, status, stdout>>

\* Mutant: the result of check() is computed and not printed.
CC_L117_silent ==
  /\ cc.pc = "L117"
  /\ LET r == Invoke_check(heap, cc.checkbox)
     IN IF IsExc(r)
        THEN Raise(r, trace) /\ UNCHANGED <<heap, stdout>>
        ELSE /\ cc' = [cc EXCEPT !.pc = "L118"]
             /\ trace' = Append(trace, Call("client_code", "check", cc.checkbox, 0, r))
             /\ UNCHANGED <<mode, pc, status, heap, stdout>>

\* print(f"{checkbox.check()}")
CC_L117 ==
  /\ cc.pc = "L117"
  /\ LET r == Invoke_check(heap, cc.checkbox)
     IN IF IsExc(r)
        THEN Raise(r, trace) /\ UNCHANGED <<heap, stdout>>
        ELSE /\ stdout' = print(stdout, r.s)
             /\ cc' = [cc EXCEPT !.pc = "L118"]
             /\ trace' = Append(trace, Call("client_code", "check", cc.checkbox, 0, r))
             /\ UNCHANGED <<mode, pc, status, heap>>

\* print(f"{checkbox.toggle_with_button(button)}")
CC_L118 ==
  /\ cc.pc = "L118"
  /\ LET b == ClientToggleArg(cc)
         r == Invoke_toggle_with_button(heap, cc.checkbox, b)
         tr == trace \o ToggleCalls("client_code", heap, cc.checkbox, b)
     IN IF IsExc(r)
        THEN Raise(r, tr) /\ UNCHANGED <<heap, stdout>>
        ELSE /\ stdout' = print(stdout, r.s)
             /\ cc' = [cc EXCEPT !.pc = "end"]
             /\ trace' = tr
             /\ UNCHANGED <<mode, pc, status, heap>>

\* The statement of the module-level code after the one at p.
After(p) == IF p = "L123" THEN "L125" ELSE "eof"

\* The end of the body: client_code returns None to its caller.
CC_Return ==
  /\ cc.pc = "end"
  /\ cc' = NoFrame
  /\ trace' = Append(trace, Call(Caller, "client_code", 0, cc.factory, V_None))
  /\ pc' = IF mode = "script" THEN After(pc) ELSE pc
  /\ UNCHANGED <<mode, status, heap, stdout>>

-----------------------------------------------------------------------------
\* The __main__ block (mode = "script").

NarrationWindows == "Client: Testing client code with the Windows GUI toolkit:"

NarrationMacOS == "Client: Testing the same client code with the MacOS GUI toolkit:"

\* Mutant: line 125 prints an empty string.
Separator_empty == ""

\* What line 125 prints.
Separator == "\n"

AtMain(p) == mode = "script" /\ status = "running" /\ pc = p /\ cc.pc = "none"

Main_L122 ==
  /\ AtMain("L122")
  /\ stdout' = print(stdout, NarrationWindows)
  /\ pc' = "L123"
  /\ UNCHANGED <<mode, status, heap, cc, trace>>

\* client_code(WindowsGUIToolkitFactory()): the argument, then the call.
Main_L123 ==
  /\ AtMain("L123")
  /\ LET n == Instantiate(heap, "WindowsGUIToolkitFactory")
         tr == Append(trace, Call("__main__", "WindowsGUIToolkitFactory", 0, 0, n.res))
     IN heap' = n.heap /\ trace' = tr /\ cc' = Frame(n.res.ref, tr)
  /\ UNCHANGED <<mode, pc, status, stdout>>

Main_L125 ==
  /\ AtMain("L125")
  /\ stdout' = print(stdout, Separator)
  /\ pc' = "L127"
  /\ UNCHANGED <<mode, status, heap, cc, trace>>

Main_L127 ==
  /\ AtMain("L127")
  /\ stdout' = print(stdout, NarrationMacOS)
  /\ pc' = "L128"
  /\ UNCHANGED <<mode, status, heap, cc, trace>>

\* client_code(MacOSGUIToolkitFactory())
Main_L128 ==
  /\ AtMain("L128")
  /\ LET n == Instantiate(heap, "MacOSGUIToolkitFactory")
         tr == Append(trace, Call("__main__", "MacOSGUIToolkitFactory", 0, 0, n.res))
     IN heap' = n.heap /\ trace' = tr /\ cc' = Frame(n.res.ref, tr)
  /\ UNCHANGED <<mode, pc, status, stdout>>

\* The end of the file: the interpreter exits with status 0.
Main_Exit ==
  /\ AtMain("eof")
  /\ pc' = "done"
  /\ status' = "exit0"
  /\ UNCHANGED <<mode, heap, cc, stdout, trace>>

-----------------------------------------------------------------------------
\* An importer of the module (mode = "import"): it constructs objects and
\* calls their methods and client_code, one call at a time.

\* The calls the importer itself has made and that have completed.
ImporterCalls == {i \in 1 .. Len(trace) : trace[i].by = "importer"}

AtImporter == mode = "import" /\ cc.pc = "none"

MayCall == AtImporter /\ Cardinality(ImporterCalls) < MaxCalls

\* The objects the importer holds: those its own calls returned.
Objects ==
  {trace[k].res.ref : k \in {i \in ImporterCalls : trace[i].res.kind = "ref"}}

Has(i, name) == name \in MethodsOf(heap[i])

\* cls()
Construct(cls) ==
  /\ MayCall
  /\ LET n == Instantiate(heap, cls)
     IN heap' = n.heap /\ trace' = Append(trace, Call("importer", cls, 0, 0, n.res))
  /\ UNCHANGED <<mode, pc, status, cc, stdout>>

\* b.click()
Imp_click(b) ==
  /\ MayCall
  /\ Has(b, "click")
  /\ LET r == Invoke_click(heap, b)
     IN trace' = Append(trace, Call("importer", "click", b, 0, r))
  /\ UNCHANGED <<mode, pc, status, heap, cc, stdout>>

\* c.check()
Imp_check(c) ==
  /\ MayCall
  /\ Has(c, "check")
  /\ LET r == Invoke_check(heap, c)
     IN trace' = Append(trace, Call("importer", "check", c, 0, r))
  /\ UNCHANGED <<mode, pc, status, heap, cc, stdout>>

\* c.toggle_with_button(x), x any object at all
Imp_toggle_with_button(c, x) ==
  /\ MayCall
  /\ Has(c, "toggle_with_button")
  /\ trace' = trace \o ToggleCalls("importer", heap, c, x)
  /\ UNCHANGED <<mode, pc, status, heap, cc, stdout>>

\* f.create_button()
Imp_create_button(f) ==
  /\ MayCall
  /\ Has(f, "create_button")
  /\ LET n == Created(heap, Invoke_create_button(heap, f))
     IN /\ heap' = n.heap
        /\ trace' = Append(trace, Call("importer", "create_button", f, 0, n.res))
  /\ UNCHANGED <<mode, pc, status, cc, stdout>>

\* f.create_checkbox()
Imp_create_checkbox(f) ==
  /\ MayCall
  /\ Has(f, "create_checkbox")
  /\ LET n == Created(heap, Invoke_create_checkbox(heap, f))
     IN /\ heap' = n.heap
        /\ trace' = Append(trace, Call("importer", "create_checkbox", f, 0, n.res))
  /\ UNCHANGED <<mode, pc, status, cc, stdout>>

\* client_code(x), x any object at all
Imp_client_code(x) ==
  /\ MayCall
  /\ cc' = Frame(x, trace)
  /\ UNCHANGED <<mode, pc, status, heap, stdout, trace>>

-----------------------------------------------------------------------------

\* An importer is taken up when it has constructed a factory, a checkbox
\* and a button, of any variants.
ImporterHeaps ==
  {<<f, c, b>> : f \in FactoryClasses, c \in CheckboxClasses, b \in ButtonClasses}

Constructed(h) == [i \in 1 .. Len(h) |-> Call("importer", h[i], 0, 0, V_Ref(i))]

Init ==
  /\ mode \in {"script", "import"}
  /\ pc = IF mode = "script" THEN "L122" ELSE "imported"
  /\ status = "running"
  /\ heap \in IF mode = "script" THEN {<<>>} ELSE ImporterHeaps
  /\ cc = NoFrame
  /\ stdout = ""
  /\ trace = Constructed(heap)

Next ==
  \/ Main_L122
  \/ Main_L123
  \/ Main_L125
  \/ Main_L127
  \/ Main_L128
  \/ Main_Exit
  \/ CC_L114
  \/ CC_L115
  \/ CC_L117
  \/ CC_L118
  \/ CC_Return
  \/ \E cls \in ConcreteClasses \cup AbstractClasses : Construct(cls)
  \/ \E b \in Objects : Imp_click(b)
  \/ \E c \in Objects : Imp_check(c)
  \/ \E c \in Objects : \E x \in Objects : Imp_toggle_with_button(c, x)
  \/ \E f \in Objects : Imp_create_button(f)
  \/ \E f \in Objects : Imp_create_checkbox(f)
  \/ \E x \in Objects : Imp_client_code(x)

Spec == Init /\ [][Next]_vars

\* A script's interpreter executes the next statement as long as there is
\* one; an importer may stop calling at any time.
ScriptNext == mode = "script" /\ Next

FairSpec == Spec /\ WF_vars(ScriptNext)

-----------------------------------------------------------------------------
\* Text helpers for the properties.

Contains(s, sub) ==
  \E i \in 1 .. (Len(s) + 1 - Len(sub)) : SubSeq(s, i, i + Len(sub) - 1) = sub

StartsWith(s, pre) == Len(pre) <= Len(s) /\ SubSeq(s, 1, Len(pre)) = pre

\* The lines of a text, each ended by a line end.
RECURSIVE Lines(_)
Lines(s) ==
  IF s = "" THEN <<>>
  ELSE IF ~Contains(s, "\n") THEN <<s>>
  ELSE LET i == CHOOSE k \in 1 .. Len(s) :
                  /\ SubSeq(s, k, k) = "\n"
                  /\ \A j \in 1 .. (k - 1) : SubSeq(s, j, j) # "\n"
       IN <<SubSeq(s, 1, i - 1)>> \o Lines(SubSeq(s, i + 1, Len(s)))

Variants == {"Windows", "MacOS"}

Calls == 1 .. Len(trace)

\* The strings the two families are specified to produce.
ClickText(v) == "You have clicked a " \o v \o " button."

CheckText(v) == v \o " checkbox is checked."

TogglePrefix(v) == v \o " checkbox toggled with ("

\* Call i is a creation method called on a factory of variant v.
IsCreation(i, v) ==
  /\ trace[i].op \in {"create_button", "create_checkbox"}
  /\ heap[trace[i].self] = v \o "GUIToolkitFactory"

-----------------------------------------------------------------------------
\* C1. Family consistency: whatever calls came before, a creation method of
\* a factory of variant V returns a new V button (create_button) or a new V
\* checkbox (create_checkbox), and no click, check or toggle of that product
\* ever yields the other variant's text.
C1_FamilyConsistency ==
  \A i \in Calls : \A v \in Variants :
    IsCreation(i, v) =>
      /\ trace[i].res.kind = "ref"
      /\ heap[trace[i].res.ref] =
           v \o (IF trace[i].op = "create_button" THEN "Button" ELSE "Checkbox")
      /\ \A j \in Calls : \A w \in Variants \ {v} :
           trace[j].self = trace[i].res.ref =>
             /\ trace[j].op = "click" =>
                  trace[j].res = V_Str(ClickText(v)) /\ trace[j].res.s # ClickText(w)
             /\ trace[j].op = "check" =>
                  trace[j].res = V_Str(CheckText(v)) /\ trace[j].res.s # CheckText(w)
             /\ trace[j].op = "toggle_with_button" /\ trace[j].res.kind = "str" =>
                  /\ StartsWith(trace[j].res.s, TogglePrefix(v))
                  /\ ~StartsWith(trace[j].res.s, TogglePrefix(w))

\* One factory has created a button and a checkbox, and both have been used.
C1_Witness ==
  \E i, j, k, l \in Calls :
    /\ trace[i].op = "create_button" /\ trace[j].op = "create_checkbox"
    /\ trace[i].self = trace[j].self
    /\ heap[trace[i].self] = "MacOSGUIToolkitFactory"
    /\ trace[k].op = "click" /\ trace[k].self = trace[i].res.ref
    /\ trace[l].op = "toggle_with_button" /\ trace[l].self = trace[j].res.ref

-----------------------------------------------------------------------------
\* What the running activation of client_code has written so far.
Emitted == SubSeq(stdout, cc.out0 + 1, Len(stdout))

\* C2. One run of client_code with a factory of variant V writes exactly two
\* lines, "V checkbox is checked." and then
\* "V checkbox toggled with (You have clicked a V button.)": nothing before
\* the third statement, the first line after it, both lines at the end.
C2_ClientCodeOutput ==
  \A v \in Variants :
    cc.pc # "none" /\ heap[cc.factory] = v \o "GUIToolkitFactory" =>
      LET want == <<v \o " checkbox is checked.",
                    v \o " checkbox toggled with (You have clicked a " \o v \o " button.)">>
          n == IF cc.pc = "end" THEN 2 ELSE IF cc.pc = "L118" THEN 1 ELSE 0
      IN /\ Lines(Emitted) = SubSeq(want, 1, n)
         /\ Emitted = "" \/ SubSeq(Emitted, Len(Emitted), Len(Emitted)) = "\n"

\* The script's second run, with the MacOS factory, has reached its end.
C2_Witness ==
  /\ mode = "script" /\ pc = "L128"
  /\ cc.pc = "end" /\ heap[cc.factory] = "MacOSGUIToolkitFactory"

-----------------------------------------------------------------------------
\* C3. Composition: a checkbox of variant C toggled with a button of variant
\* B, the same or the other one, returns a string that names C and embeds
\* the very text the click of the button passed returned, which is B's and
\* not that of a button of any other family.
C3_Composition ==
  \A i \in Calls : \A c, b \in Variants :
    /\ trace[i].op = "toggle_with_button"
    /\ heap[trace[i].self] = c \o "Checkbox"
    /\ heap[trace[i].arg] = b \o "Button"
    => /\ trace[i].res.kind = "str"
       /\ Contains(trace[i].res.s, c)
       /\ i > 1
       /\ trace[i - 1].op = "click" /\ trace[i - 1].self = trace[i].arg
       /\ trace[i - 1].res.kind = "str"
       /\ Contains(trace[i].res.s, "(" \o trace[i - 1].res.s \o ")")
       /\ Contains(trace[i].res.s, ClickText(b))
       /\ \A w \in Variants \ {b} : ~Contains(trace[i].res.s, ClickText(w))

\* A Windows checkbox has been toggled with a MacOS button.
C3_Witness ==
  \E i \in Calls :
    /\ trace[i].op = "toggle_with_button" /\ trace[i].res.kind = "str"
    /\ heap[trace[i].self] = "WindowsCheckbox"
    /\ heap[trace[i].arg] = "MacOSButton"

-----------------------------------------------------------------------------
\* C4. For each variant V, the click of a button that a V factory created
\* succeeds and returns a non-empty string containing V's name and "button".
C4_ButtonClick ==
  \A i, j \in Calls : \A v \in Variants :
    /\ IsCreation(i, v) /\ trace[i].op = "create_button"
    /\ trace[j].op = "click" /\ trace[j].self = trace[i].res.ref
    => /\ trace[j].res.kind = "str"
       /\ trace[j].res.s # ""
       /\ Contains(trace[j].res.s, v)
       /\ Contains(trace[j].res.s, "button")

\* A button created by a MacOS factory has been clicked.
C4_Witness ==
  \E i, j \in Calls :
    /\ IsCreation(i, "MacOS") /\ trace[i].op = "create_button"
    /\ trace[j].op = "click" /\ trace[j].self = trace[i].res.ref
    /\ trace[j].by = "importer"

-----------------------------------------------------------------------------
\* C5. For each variant V, the check of a checkbox that a V factory created
\* returns a string containing V's name and the word "checked".
C5_CheckboxCheck ==
  \A i, j \in Calls : \A v \in Variants :
    /\ IsCreation(i, v) /\ trace[i].op = "create_checkbox"
    /\ trace[j].op = "check" /\ trace[j].self = trace[i].res.ref
    => /\ trace[j].res.kind = "str"
       /\ Contains(trace[j].res.s, v)
       /\ Contains(trace[j].res.s, "checked")

\* A checkbox created by a Windows factory has been checked.
C5_Witness ==
  \E i, j \in Calls :
    /\ IsCreation(i, "Windows") /\ trace[i].op = "create_checkbox"
    /\ trace[j].op = "check" /\ trace[j].self = trace[i].res.ref
    /\ trace[j].by = "importer"

-----------------------------------------------------------------------------
\* Calls i and j are the same operation on the same receiver (and argument).
SameCall(i, j) ==
  /\ trace[i].op = trace[j].op
  /\ trace[i].self = trace[j].self
  /\ trace[i].arg = trace[j].arg
  /\ trace[i].op \in {"click", "check", "toggle_with_button",
                      "create_button", "create_checkbox"}

\* C6 as stated: repeating any of the five operations on the same receiver
\* returns the identical result as the first call.
C6_IdenticalResults ==
  \A i, j \in Calls : i < j /\ SameCall(i, j) => trace[j].res = trace[i].res

\* C6, amended.  Whatever calls came in between, a repeated click, check or
\* toggle_with_button (with the same button) returns the identical outcome
\* as the first call; a repeated create_button or create_checkbox returns
\* another, new object of the same class as the first call's.
C6_Stateless ==
  \A i, j \in Calls :
    i < j /\ SameCall(i, j) =>
      IF trace[i].op \in {"create_button", "create_checkbox"}
      THEN /\ trace[i].res.kind = "ref" /\ trace[j].res.kind = "ref"
           /\ trace[j].res.ref > trace[i].res.ref
           /\ heap[trace[j].res.ref] = heap[trace[i].res.ref]
      ELSE trace[j].res = trace[i].res

\* An importer has asked the same factory for a button twice.
C6_Witness ==
  \E i, j \in Calls :
    /\ i < j /\ SameCall(i, j)
    /\ trace[i].by = "importer" /\ trace[j].by = "importer"
    /\ trace[i].op = "create_button"

-----------------------------------------------------------------------------
\* The lines of a complete script run, with the n empty lines that separate
\* the two demonstrations.
ScriptLines(n) ==
  <<NarrationWindows,
    "Windows checkbox is checked.",
    "Windows checkbox toggled with (You have clicked a Windows button.)">>
  \o [i \in 1 .. n |-> ""]
  \o <<NarrationMacOS,
       "MacOS checkbox is checked.",
       "MacOS checkbox toggled with (You have clicked a MacOS button.)">>

\* How many lines the script has written when it is at pc, with n
\* separating lines, client_code being at cpc.
LinesWritten(n, p, cpc) ==
  (CASE p = "L122" -> 0
     [] p = "L123" -> 1
     [] p = "L125" -> 3
     [] p = "L127" -> 3 + n
     [] p = "L128" -> 4 + n
     [] OTHER -> 6 + n)
  + (IF cpc = "L118" THEN 1 ELSE IF cpc = "end" THEN 2 ELSE 0)

\* C7 as stated: the complete output of the script has one empty line
\* between the Windows run and the narration of the MacOS run.
C7_OneBlankLine ==
  mode = "script" /\ pc = "done" => Lines(stdout) = ScriptLines(1)

\* C7, amended.  The script writes, in this order: a narration line, the two
\* lines of the Windows run, two empty lines (print("\n") writes a line end
\* and ends the line), a narration line, the two lines of the MacOS run.  At
\* every point of the run the output is the part of this text up to the
\* statement reached, so each narration precedes its run and the Windows
\* run is complete before the MacOS run begins.
C7_ScriptOutput ==
  mode = "script" =>
    /\ status # "exit1"
    /\ Lines(stdout) = SubSeq(ScriptLines(2), 1, LinesWritten(2, pc, cc.pc))
    /\ pc = "done" => Lines(stdout) = ScriptLines(2)

\* The script has run to its end.
C7_Witness == mode = "script" /\ pc = "done" /\ Len(Lines(stdout)) = 8

-----------------------------------------------------------------------------
\* The part an object plays in a run of client_code with factory f, button b
\* and checkbox c.
Role(x, f, b, c) ==
  IF x = 0 THEN "-"
  ELSE IF x = f THEN "factory"
  ELSE IF x = b THEN "button"
  ELSE IF x = c THEN "checkbox"
  ELSE "other"

Shape(e, f, b, c) == <<e.by, e.op, Role(e.self, f, b, c), Role(e.arg, f, b, c)>>

\* The scripted sequence: create a button, create a checkbox, check,
\* toggle_with_button on the checkbox with the button (which clicks it).
ClientScript ==
  << <<"client_code", "create_button", "factory", "-">>,
     <<"client_code", "create_checkbox", "factory", "-">>,
     <<"client_code", "check", "checkbox", "-">>,
     <<"toggle_with_button", "click", "button", "-">>,
     <<"client_code", "toggle_with_button", "checkbox", "button">> >>

\* Calls first .. first + n - 1 are the first n calls of the scripted
\* sequence, the button and the checkbox being those the first two returned.
FollowsScript(first, n, f) ==
  LET b == IF n >= 1 THEN trace[first].res.ref ELSE 0
      c == IF n >= 2 THEN trace[first + 1].res.ref ELSE 0
  IN /\ first >= 1 /\ first + n - 1 <= Len(trace)
     /\ [i \in 1 .. n |-> Shape(trace[first + i - 1], f, b, c)] = SubSeq(ClientScript, 1, n)
     /\ \A i \in 1 .. n : trace[first + i - 1].res.kind # "exc"
     /\ n >= 2 => b # c

\* C8. Substitutability: for a factory of either variant client_code makes
\* the same calls in the same order (create_button, create_checkbox, check,
\* toggle_with_button, which clicks), on the checkbox and with the button
\* that this factory created, and returns normally; while it runs, the calls
\* made so far are the part of that sequence up to the statement reached.
C8_Substitutability ==
  /\ \A k \in Calls :
       trace[k].op = "client_code" /\ heap[trace[k].arg] \in FactoryClasses =>
         /\ trace[k].res = V_None
         /\ FollowsScript(k - 5, 5, trace[k].arg)
  /\ cc.pc # "none" /\ heap[cc.factory] \in FactoryClasses =>
       LET n == CASE cc.pc = "L114" -> 0 [] cc.pc = "L115" -> 1 [] cc.pc = "L117" -> 2
                  [] cc.pc = "L118" -> 3 [] OTHER -> 5
       IN /\ Len(trace) = cc.tr0 + n
          /\ FollowsScript(cc.tr0 + 1, n, cc.factory)
          /\ n >= 1 => cc.button = trace[cc.tr0 + 1].res.ref
          /\ n >= 2 => cc.checkbox = trace[cc.tr0 + 2].res.ref

\* The script has completed a run with each factory.
C8_Witness ==
  \E k, l \in Calls :
    /\ trace[k].op = "client_code" /\ trace[l].op = "client_code"
    /\ heap[trace[k].arg] = "WindowsGUIToolkitFactory"
    /\ heap[trace[l].arg] = "MacOSGUIToolkitFactory"
    /\ trace[k].by = "__main__"

-----------------------------------------------------------------------------
\* C9. A contract violation fails fast.  toggle_with_button of either
\* checkbox, given an object without a click operation, raises an error that
\* names the missing operation and never returns a "toggled with" string;
\* and calling an abstract class (GUIToolkitFactory, Button, Checkbox)
\* raises an error naming the class, so no object of such a class exists.
C9_FailFast ==
  /\ \A i \in Calls :
       /\ trace[i].op = "toggle_with_button"
       /\ heap[trace[i].self] \in CheckboxClasses
       /\ heap[trace[i].arg] \notin ButtonClasses
       => /\ trace[i].res.kind = "exc"
          /\ trace[i].res.exc = "AttributeError"
          /\ Contains(trace[i].res.s, "no attribute 'click'")
          /\ ~Contains(trace[i].res.s, "toggled with")
  /\ \A i \in Calls :
       trace[i].op \in AbstractClasses =>
         /\ trace[i].res.kind = "exc"
         /\ trace[i].res.exc = "TypeError"
         /\ Contains(trace[i].res.s, "abstract class " \o trace[i].op)
  /\ \A o \in 1 .. Len(heap) : heap[o] \notin AbstractClasses

\* A Windows checkbox was toggled with something that is no button, and
\* Button() was attempted.
C9_Witness ==
  \E i, j \in Calls :
    /\ trace[i].op = "toggle_with_button"
    /\ heap[trace[i].self] = "WindowsCheckbox"
    /\ heap[trace[i].arg] \notin ButtonClasses
    /\ trace[j].op = "Button"

-----------------------------------------------------------------------------
\* The script has completed both demonstrations and exited with status 0.
BothRunsDone ==
  /\ status = "exit0" /\ pc = "done"
  /\ \E k, l \in Calls :
       /\ k < l
       /\ trace[k] = Call("__main__", "client_code", 0, 1, V_None)
       /\ trace[l].op = "client_code" /\ trace[l].by = "__main__"
       /\ trace[l].res = V_None
       /\ heap[trace[l].arg] = "MacOSGUIToolkitFactory"

\* C10. Termination: a script run never exits with an error, none of its
\* calls raises, and it always reaches its end, with status 0, after both
\* demonstration runs have completed.
C10_Termination ==
  /\ [](mode = "script" =>
          /\ status # "exit1"
          /\ \A i \in Calls : trace[i].res.kind # "exc")
  /\ (mode = "script") ~> BothRunsDone

\* The script has exited with status 0 after both runs.
C10_Witness == mode = "script" /\ BothRunsDone

====
